---- MODULE Spec2Model ----
(***************************************************************************)
(* Model of deadline-guard: the urgency classifier and the reminder window *)
(* evaluator (pure date arithmetic), the reminder dispatcher (free-running *)
(* and under the daily cron schedule), the billing webhook handler, the    *)
(* deadline repository's insert guards, the recurrence scheduler and the   *)
(* auto-renewal function.                                                  *)
(*                                                                         *)
(* Time is counted in whole hours since an epoch that falls on a UTC       *)
(* midnight; a calendar date is a day number (hour \div 24).               *)
(***************************************************************************)
EXTENDS Integers, Sequences, FiniteSets, TLC

VARIABLES
    now,              \* the wall clock, in hours (new Date() / NOW())
    \* ---- pure-function harness
    dueDate,          \* classifier input: due date (day number)
    status,           \* classifier output
    daysUntil,        \* evaluator input: days until due
    lastReminderSent, \* evaluator input: last_reminder_sent (hour) or NULL
    remind,           \* evaluator output
    applied,          \* which pure functions have been applied
    \* ---- reminder dispatcher
    deadlines,        \* public.deadlines: id -> row
    profiles,         \* public.profiles: the user ids that have a row
    run,              \* dispatcher invocation -> its position and locals
    emails,           \* run -> deadline id -> emails the email API accepted
    ticks,            \* how often the clock has advanced
    \* ---- billing webhook handler
    subscriptions,    \* public.subscriptions: set of rows
    customers,        \* public.profiles: the stripe_customer_id values present
    request,          \* webhook delivery -> its position, input and response
    dbOps,            \* webhook delivery -> number of database statements issued
    \* ---- deadline repository insert guards
    owned,            \* created_at (hour) -> number of deadline rows of the user
    rejected,         \* result of the last insert attempt
    \* ---- recurrence scheduler and auto-renewal
    recurring,        \* public.deadlines: the rows with their recurrence columns
    scheduled,        \* the last call of getNextDueDate, with its result
    invoked,          \* create_next_recurring_deadline: the row it last ran for
                      \* and how often it has run
    \* ---- organizations, invitations and row-level visibility
    teamProfiles,     \* public.profiles: user id -> organization_id and role
    organizations,    \* public.organizations: the ids
    invitations,      \* public.organization_invitations: set of rows
    teamDeadlines,    \* public.deadlines: the rows' user_id and organization_id
    teamCall,         \* the last call: operation, caller, token, outcome
    \* ---- checkout-session creation
    stripeCustomers,  \* the provider's customer records: id and supabase_user_id
    checkoutProfiles, \* public.profiles: user id -> stripe_customer_id
    checkout          \* checkout request -> its position, input, locals, response

pureVars == <<dueDate, status, daysUntil, lastReminderSent, remind, applied>>
dispatchVars == <<deadlines, profiles, run, emails, ticks>>
webhookVars == <<subscriptions, customers, request, dbOps>>
repoVars == <<owned, rejected>>
renewVars == <<recurring, scheduled, invoked>>
teamVars == <<teamProfiles, organizations, invitations, teamDeadlines, teamCall>>
checkoutVars == <<stripeCustomers, checkoutProfiles, checkout>>
vars == <<now, pureVars, dispatchVars, webhookVars, repoVars, renewVars, teamVars,
          checkoutVars>>

\* string | null, TIMESTAMP WITH TIME ZONE (nullable): the absent value
NULL == -1
HoursPerDay == 24

(***************************************************************************)
(* Bounds                                                                  *)
(***************************************************************************)
MaxDueDay == 36       \* classifier harness: due dates 0..MaxDueDay
MaxToday == 2         \* classifier harness: today in 0..MaxToday
MinDays == 2          \* evaluator harness: days until due from -MinDays
MaxDays == 32         \* evaluator harness: days until due up to MaxDays
MaxHour == 31         \* evaluator harness: clock and timestamps 0..MaxHour
MaxDue == 3           \* dispatcher: due dates 0..MaxDue (day numbers)
MaxTicks == 2         \* dispatcher: how often the clock advances

(***************************************************************************)
(* Urgency classifier (src/lib/deadline-utils.ts)                          *)
(***************************************************************************)
URGENCY_THRESHOLDS ==
    [overdue |-> 0, critical |-> 3, urgent |-> 7, warning |-> 14, upcoming |-> 30]

DeadlineStatus == {"safe", "upcoming", "warning", "urgent", "critical", "overdue"}

\* differenceInDays(startOfDay(parseISO(dueDate)), startOfDay(new Date()))
getDaysUntilDue(due, today) == due - today

getDeadlineStatusStrictCritical(due, today) ==
    LET daysUntilDue == getDaysUntilDue(due, today) IN
    IF daysUntilDue < 0 THEN "overdue"
    ELSE IF daysUntilDue < URGENCY_THRESHOLDS.critical THEN "critical"
    ELSE IF daysUntilDue <= URGENCY_THRESHOLDS.urgent THEN "urgent"
    ELSE IF daysUntilDue <= URGENCY_THRESHOLDS.warning THEN "warning"
    ELSE IF daysUntilDue <= URGENCY_THRESHOLDS.upcoming THEN "upcoming"
    ELSE "safe"

getDeadlineStatusOutOfOrder(due, today) ==
    LET daysUntilDue == getDaysUntilDue(due, today) IN
    IF daysUntilDue < 0 THEN "overdue"
    ELSE IF daysUntilDue <= URGENCY_THRESHOLDS.critical THEN "critical"
    ELSE IF daysUntilDue <= URGENCY_THRESHOLDS.urgent THEN "warning"
    ELSE IF daysUntilDue <= URGENCY_THRESHOLDS.warning THEN "urgent"
    ELSE IF daysUntilDue <= URGENCY_THRESHOLDS.upcoming THEN "upcoming"
    ELSE "safe"

getDeadlineStatus(due, today) ==
    LET daysUntilDue == getDaysUntilDue(due, today) IN
    IF daysUntilDue < 0 THEN "overdue"
    ELSE IF daysUntilDue <= URGENCY_THRESHOLDS.critical THEN "critical"
    ELSE IF daysUntilDue <= URGENCY_THRESHOLDS.urgent THEN "urgent"
    ELSE IF daysUntilDue <= URGENCY_THRESHOLDS.warning THEN "warning"
    ELSE IF daysUntilDue <= URGENCY_THRESHOLDS.upcoming THEN "upcoming"
    ELSE "safe"

(***************************************************************************)
(* Reminder window evaluator (send-deadline-reminders/index.ts)            *)
(***************************************************************************)
REMINDER_WINDOWS == {30, 14, 7, 3, 1}

isAtWindowUpperOnly(days) ==
    \E window \in REMINDER_WINDOWS : days <= window

isAtWindowTwoDays(days) ==
    \E window \in REMINDER_WINDOWS : days <= window /\ days > window - 2

isAtWindowOrDueDay(days) ==
    days = 0 \/ \E window \in REMINDER_WINDOWS : days <= window /\ days > window - 1

\* REMINDER_WINDOWS.some(window => daysUntil <= window && daysUntil > window - 1)
isAtWindow(days) ==
    \E window \in REMINDER_WINDOWS : days <= window /\ days > window - 1

shouldSendReminderStrict(days, lastSent, clock) ==
    IF ~isAtWindow(days) THEN FALSE
    ELSE IF lastSent = NULL THEN TRUE
    ELSE clock - lastSent > HoursPerDay

\* hoursSinceLastReminder = (now - lastSent) / 3600000, compared with >= 24;
\* clock and lastSent are in hours
shouldSendReminder(days, lastSent, clock) ==
    IF ~isAtWindow(days) THEN FALSE
    ELSE IF lastSent = NULL THEN TRUE
    ELSE clock - lastSent >= HoursPerDay

(***************************************************************************)
(* Values the variables of a subsystem hold while another one is checked   *)
(***************************************************************************)
PureIdle ==
    /\ dueDate = 0
    /\ status = "safe"
    /\ daysUntil = 0
    /\ lastReminderSent = NULL
    /\ remind = FALSE
    /\ applied = {}

DispatchIdle ==
    /\ deadlines = <<>>
    /\ profiles = {}
    /\ run = <<>>
    /\ emails = <<>>
    /\ ticks = 0

WebhookIdle ==
    /\ subscriptions = {}
    /\ customers = {}
    /\ request = <<>>
    /\ dbOps = <<>>

RepoIdle ==
    /\ owned = <<>>
    /\ rejected = FALSE

RenewIdle ==
    /\ recurring = {}
    /\ scheduled = {}
    /\ invoked = [id |-> NULL, n |-> 0]

NoCall == [op |-> "none", caller |-> NULL, token |-> NULL, ok |-> FALSE]

TeamIdle ==
    /\ teamProfiles = <<>>
    /\ organizations = {}
    /\ invitations = {}
    /\ teamDeadlines = {}
    /\ teamCall = NoCall

CheckoutIdle ==
    /\ stripeCustomers = {}
    /\ checkoutProfiles = <<>>
    /\ checkout = <<>>

(***************************************************************************)
(* Harness for the urgency classifier: a due date and a clock are drawn,   *)
(* then getDeadlineStatus is applied.                                      *)
(***************************************************************************)
todayNearest == (now + HoursPerDay \div 2) \div HoursPerDay

\* startOfDay(new Date()): the calendar date of the clock
today == now \div HoursPerDay

ClassifierInit ==
    /\ now \in 0..((MaxToday + 1) * HoursPerDay - 1)
    /\ dueDate \in 0..MaxDueDay
    /\ status = "safe"
    /\ daysUntil = 0
    /\ lastReminderSent = NULL
    /\ remind = FALSE
    /\ applied = {}
    /\ DispatchIdle /\ WebhookIdle /\ RepoIdle /\ RenewIdle /\ TeamIdle /\ CheckoutIdle

Classify ==
    /\ "classify" \notin applied
    /\ status' = getDeadlineStatus(dueDate, today)
    /\ applied' = applied \cup {"classify"}
    /\ UNCHANGED <<now, dueDate, daysUntil, lastReminderSent, remind>>
    /\ UNCHANGED <<dispatchVars, webhookVars, repoVars, renewVars, teamVars, checkoutVars>>

ClassifierNext == Classify

SpecClassifier == ClassifierInit /\ [][ClassifierNext]_vars

(***************************************************************************)
(* The urgency of one deadline as the pages show it over time: the status  *)
(* is never stored, every read computes it from the due date and the       *)
(* clock; the owner may move the due date to the next day.                 *)
(***************************************************************************)
\* sortDeadlinesByUrgency: statusOrder
statusOrder ==
    [overdue |-> 0, critical |-> 1, urgent |-> 2, warning |-> 3,
     upcoming |-> 4, safe |-> 5]

\* a later read: an hour or half a day has passed
Reread ==
    /\ "classify" \in applied
    /\ \E step \in {1, HoursPerDay \div 2} :
        /\ now + step < (MaxToday + 1) * HoursPerDay
        /\ now' = now + step
    /\ status' = getDeadlineStatus(dueDate, today')
    /\ applied' = applied \cup {"reread"}
    /\ UNCHANGED <<dueDate, daysUntil, lastReminderSent, remind>>
    /\ UNCHANGED <<dispatchVars, webhookVars, repoVars, renewVars, teamVars, checkoutVars>>

\* updateDeadline moves the due date by a day; the list is read again
Postpone ==
    /\ "classify" \in applied
    /\ dueDate < MaxDueDay
    /\ dueDate' = dueDate + 1
    /\ status' = getDeadlineStatus(dueDate', today)
    /\ applied' = applied \cup {"postpone"}
    /\ UNCHANGED <<now, daysUntil, lastReminderSent, remind>>
    /\ UNCHANGED <<dispatchVars, webhookVars, repoVars, renewVars, teamVars, checkoutVars>>

ReadsNext ==
    \/ Classify
    \/ Reread
    \/ Postpone

SpecReads == ClassifierInit /\ [][ReadsNext]_vars

(***************************************************************************)
(* Harness for the reminder window evaluator                               *)
(***************************************************************************)
EvaluatorInit ==
    /\ now \in 0..MaxHour
    /\ daysUntil \in (0 - MinDays)..MaxDays
    /\ lastReminderSent \in {NULL} \cup 0..MaxHour
    /\ dueDate = 0
    /\ status = "safe"
    /\ remind = FALSE
    /\ applied = {}
    /\ DispatchIdle /\ WebhookIdle /\ RepoIdle /\ RenewIdle /\ TeamIdle /\ CheckoutIdle

Evaluate ==
    /\ "evaluate" \notin applied
    /\ remind' = shouldSendReminder(daysUntil, lastReminderSent, now)
    /\ applied' = applied \cup {"evaluate"}
    /\ UNCHANGED <<now, dueDate, status, daysUntil, lastReminderSent>>
    /\ UNCHANGED <<dispatchVars, webhookVars, repoVars, renewVars, teamVars, checkoutVars>>

EvaluatorNext == Evaluate

SpecEvaluator == EvaluatorInit /\ [][EvaluatorNext]_vars

(***************************************************************************)
(* Reminder dispatcher (send-deadline-reminders/index.ts, serve)           *)
(*                                                                         *)
(* One step per awaited call: the deadlines query, the profile query, the  *)
(* email API call, the last_reminder_sent update; the synchronous code     *)
(* between two awaits (evaluation, counters) is one step of its own.       *)
(***************************************************************************)
DeadlineIds == {1, 2}   \* the rows of public.deadlines
Runs == {1, 2}          \* the invocations, free to overlap
Users == {1, 2}         \* auth.users

CeilDiv(a, b) == 0 - ((0 - a) \div b)

\* Math.ceil((new Date(dueDate).getTime() - now.getTime()) / 86400000):
\* a date-only string parses as that day's UTC midnight
getDaysUntilDeadlineFloor(due, clock) ==
    (due * HoursPerDay - clock) \div HoursPerDay

getDaysUntilDeadlineRound(due, clock) ==
    (2 * (due * HoursPerDay - clock) + HoursPerDay) \div (2 * HoursPerDay)

getDaysUntilDeadline(due, clock) ==
    CeilDiv(due * HoursPerDay - clock, HoursPerDay)

\* .gte("due_date", new Date().toISOString().split("T")[0])
QueryDeadlines(clock) ==
    {id \in DeadlineIds : deadlines[id].due_date >= clock \div HoursPerDay}

\* the rows of a query result, in the order of their ids (the query has no
\* ORDER BY; the initial states draw every row for every id, so every order
\* of the rows' contents occurs)
RECURSIVE InIdOrder(_)
InIdOrder(ids) ==
    IF ids = {} THEN <<>>
    ELSE LET least == CHOOSE x \in ids : \A y \in ids : x <= y
         IN  <<least>> \o InIdOrder(ids \ {least})

NoOutcome == [id \in DeadlineIds |-> "none"]

RunStart ==
    [pc |-> "start", rows |-> <<>>, i |-> 1, daysUntil |-> 0,
     remindersSent |-> 0, remindersSkipped |-> 0, response |-> 0,
     overlapped |-> FALSE,
     evalAt |-> [id \in DeadlineIds |-> NULL],
     evalDays |-> [id \in DeadlineIds |-> 0],
     outcome |-> NoOutcome]

DispatchInit ==
    /\ now = 0
    /\ deadlines \in [DeadlineIds ->
            [due_date : 0..MaxDue, user_id : Users, last_reminder_sent : {NULL, 0}]]
    /\ \A id \in DeadlineIds : deadlines[id].user_id = id
    /\ profiles \in {Users} \cup {Users \ {u} : u \in Users}
    /\ run = [r \in Runs |-> RunStart]
    /\ emails = [r \in Runs |-> [id \in DeadlineIds |-> 0]]
    /\ ticks = 0
    /\ PureIdle /\ WebhookIdle /\ RepoIdle /\ RenewIdle /\ TeamIdle /\ CheckoutIdle

\* the clock advances by an hour or by a day, also in the middle of a run
Tick ==
    /\ ticks < MaxTicks
    /\ \E step \in {1, HoursPerDay} : now' = now + step
    /\ ticks' = ticks + 1
    /\ UNCHANGED <<deadlines, profiles, run, emails>>
    /\ UNCHANGED <<pureVars, webhookVars, repoVars, renewVars, teamVars, checkoutVars>>

Row(id) == [id |-> id] @@ deadlines[id]

InFlight(r) == run[r].pc \notin {"start", "done"}

\* lines 189-198 and 234-247: the synchronous code that runs from the top of
\* the loop body for row i until the next awaited call: days until due, the
\* evaluator, the skip counter and `continue`, and after the last row the 200
\* response with the counters
RECURSIVE Loop(_, _)
Loop(rr, clock) ==
    IF rr.i > Len(rr.rows)
    THEN [rr EXCEPT !.pc = "done", !.response = 200]
    ELSE LET deadline == rr.rows[rr.i]
             days == getDaysUntilDeadline(deadline.due_date, clock)
             seen == [rr EXCEPT !.daysUntil = days,
                                !.evalAt[deadline.id] = clock,
                                !.evalDays[deadline.id] = days]
         IN  IF ~shouldSendReminder(days, deadline.last_reminder_sent, clock)
             THEN Loop([seen EXCEPT !.remindersSkipped = @ + 1,
                                    !.i = @ + 1,
                                    !.outcome[deadline.id] = "skipped"], clock)
             ELSE [seen EXCEPT !.pc = "profile"]

NextRowAbort(rr, result, clock) ==
    IF result \in {"no_profile", "send_failed", "update_failed"}
    THEN [rr EXCEPT !.pc = "done", !.response = 500,
                    !.outcome[rr.rows[rr.i].id] = result]
    ELSE Loop([rr EXCEPT !.i = @ + 1, !.outcome[rr.rows[rr.i].id] = result], clock)

\* `continue` / the end of the loop body: on to the next row
NextRow(rr, result, clock) ==
    Loop([rr EXCEPT !.i = @ + 1, !.outcome[rr.rows[rr.i].id] = result], clock)

\* lines 174-184: the query; its error is thrown and answered with 500
FetchDeadlines(r) ==
    /\ run[r].pc = "start"
    /\ \/ LET q == InIdOrder(QueryDeadlines(now)) IN
            run' = [run EXCEPT ![r] =
                        Loop([@ EXCEPT !.rows = [k \in DOMAIN q |-> Row(q[k])],
                                       !.overlapped = \E o \in Runs \ {r} : InFlight(o)],
                             now)]
       \/ run' = [run EXCEPT ![r].pc = "done", ![r].response = 500]
    /\ UNCHANGED <<now, ticks, deadlines, profiles, emails>>
    /\ UNCHANGED <<pureVars, webhookVars, repoVars, renewVars, teamVars, checkoutVars>>

Current(r) == run[r].rows[run[r].i]

\* lines 200-210: .single() gives an error when the user has no profile row;
\* the query can also fail by itself
FetchProfile(r) ==
    /\ run[r].pc = "profile"
    /\ \/ /\ Current(r).user_id \in profiles
          /\ run' = [run EXCEPT ![r].pc = "send"]
       \/ run' = [run EXCEPT ![r] = NextRow(@, "no_profile", now)]
    /\ UNCHANGED <<now, ticks, deadlines, profiles, emails>>
    /\ UNCHANGED <<pureVars, webhookVars, repoVars, renewVars, teamVars, checkoutVars>>

AfterSendOptimistic(rr, sent, clock) ==
    [rr EXCEPT !.pc = "update"]

\* line 219: the update is issued only if sendReminderEmail returned true
AfterSend(rr, sent, clock) ==
    IF sent
    THEN [rr EXCEPT !.pc = "update"]
    ELSE NextRow(rr, "send_failed", clock)

\* lines 86-156 and 212-219: the email API accepts the message, or answers
\* with an error or throws (sendReminderEmail returns false for both)
SendReminderEmail(r) ==
    /\ run[r].pc = "send"
    /\ \E sent \in BOOLEAN :
        /\ emails' = IF sent
                     THEN [emails EXCEPT ![r][Current(r).id] = @ + 1]
                     ELSE emails
        /\ run' = [run EXCEPT ![r] = AfterSend(@, sent, now)]
    /\ UNCHANGED <<now, ticks, deadlines, profiles>>
    /\ UNCHANGED <<pureVars, webhookVars, repoVars, renewVars, teamVars, checkoutVars>>

UpdateLastReminderSentCountsUpdated(r) ==
    /\ run[r].pc = "update"
    /\ \E updated \in BOOLEAN :
        /\ deadlines' = IF updated
                        THEN [deadlines EXCEPT ![Current(r).id].last_reminder_sent = now]
                        ELSE deadlines
        /\ run' = [run EXCEPT ![r] =
                      NextRow([@ EXCEPT !.remindersSent = IF updated THEN @ + 1 ELSE @],
                              IF updated THEN "sent" ELSE "update_failed", now)]
    /\ UNCHANGED <<now, ticks, profiles, emails>>
    /\ UNCHANGED <<pureVars, webhookVars, repoVars, renewVars, teamVars, checkoutVars>>

\* lines 219-231: the update of last_reminder_sent, whose error is only
\* logged; remindersSent counts either way
UpdateLastReminderSent(r) ==
    /\ run[r].pc = "update"
    /\ \E updated \in BOOLEAN :
        /\ deadlines' = IF updated
                        THEN [deadlines EXCEPT ![Current(r).id].last_reminder_sent = now]
                        ELSE deadlines
        /\ run' = [run EXCEPT ![r] =
                      NextRow([@ EXCEPT !.remindersSent = @ + 1],
                              IF updated THEN "sent" ELSE "update_failed", now)]
    /\ UNCHANGED <<now, ticks, profiles, emails>>
    /\ UNCHANGED <<pureVars, webhookVars, repoVars, renewVars, teamVars, checkoutVars>>

DispatchNext ==
    \/ Tick
    \/ \E r \in Runs :
        \/ FetchDeadlines(r)
        \/ FetchProfile(r)
        \/ SendReminderEmail(r)
        \/ UpdateLastReminderSent(r)

SpecDispatch == DispatchInit /\ [][DispatchNext]_vars

(***************************************************************************)
(* The dispatcher under the schedule of PRODUCTION_SETUP.md, section 1.5:  *)
(* cron invokes the function once per calendar day ('0 9 * * *'; the hour  *)
(* is left open here), the invocations do not overlap, the deadlines query *)
(* answers and the email API accepts every message.  The profile lookup    *)
(* fails when the owner has no profile row; the last_reminder_sent update  *)
(* may fail.                                                               *)
(***************************************************************************)
CronDays == 31          \* the schedule runs on the days 0..CronDays
CronMaxDue == 31        \* due dates up to day CronMaxDue
CronHours == {0, 9, 23} \* the hour of the day at which cron fires
CronRun == CHOOSE r \in Runs : TRUE

CronInit ==
    /\ now \in CronHours
    /\ deadlines \in [DeadlineIds ->
            [due_date : 1..CronMaxDue, user_id : Users, last_reminder_sent : {NULL}]]
    /\ \A id \in DeadlineIds : deadlines[id].user_id = id
    /\ \E id \in DeadlineIds : deadlines[id].due_date = CronMaxDue
    /\ profiles \in {Users} \cup {Users \ {u} : u \in Users}
    /\ run = [r \in Runs |-> RunStart]
    /\ emails = [r \in Runs |-> [id \in DeadlineIds |-> 0]]
    /\ ticks = 0
    /\ PureIdle /\ WebhookIdle /\ RepoIdle /\ RenewIdle /\ TeamIdle /\ CheckoutIdle

\* the next day's invocation, after the previous one has responded
CronFires ==
    /\ run[CronRun].pc = "done"
    /\ ticks < CronDays
    /\ \E hour \in CronHours : now' = (today + 1) * HoursPerDay + hour
    /\ ticks' = ticks + 1
    /\ run' = [run EXCEPT ![CronRun] = RunStart]
    /\ UNCHANGED <<deadlines, profiles, emails>>
    /\ UNCHANGED <<pureVars, webhookVars, repoVars, renewVars, teamVars, checkoutVars>>

DailyFetchDeadlines ==
    /\ FetchDeadlines(CronRun)
    /\ run'[CronRun].response # 500

DailyFetchProfile ==
    /\ FetchProfile(CronRun)
    /\ (run'[CronRun].pc = "send") = (Current(CronRun).user_id \in profiles)

DailySendReminderEmail ==
    /\ SendReminderEmail(CronRun)
    /\ emails' # emails

DailyUpdateLastReminderSent == UpdateLastReminderSent(CronRun)

DailyNext ==
    \/ CronFires
    \/ DailyFetchDeadlines
    \/ DailyFetchProfile
    \/ DailySendReminderEmail
    \/ DailyUpdateLastReminderSent

SpecDaily == CronInit /\ [][DailyNext]_vars

(***************************************************************************)
(* Billing webhook handler (stripe-webhook/index.ts, serve) over           *)
(* public.subscriptions (20260119_production_ready.sql)                    *)
(***************************************************************************)
Requests == {1, 2}      \* webhook deliveries, free to overlap
SubIds == {1, 2}        \* the provider's subscription ids
ProPrice == "price_pro"
TeamPrice == "price_team"
OtherPrice == "price_other"
PastHour == 0           \* a timestamp before the webhook clock
WebhookNow == 1         \* the clock while webhooks are handled
FutureHour == 2         \* a timestamp after the webhook clock

\* PRICE_TO_TIER[priceId] || "pro"
PRICE_TO_TIER(priceId) ==
    CASE priceId = ProPrice -> "pro"
      [] priceId = TeamPrice -> "team"
      [] OTHER -> "pro"

\* the columns of public.subscriptions that carry a PRIMARY KEY or UNIQUE
\* constraint: id and stripe_subscription_id; user_id has a plain index only
UniqueColumns == {"id", "stripe_subscription_id"}

FreshId(table) ==
    IF table = {} THEN 1
    ELSE 1 + (CHOOSE m \in {row.id : row \in table} :
                  \A row \in table : row.id <= m)

KeepsUnique(table) ==
    \A a, b \in table :
        (a # b) => /\ a.id # b.id
                   /\ (a.stripe_subscription_id = NULL
                       \/ a.stripe_subscription_id # b.stripe_subscription_id)

\* the column defaults of CREATE TABLE public.subscriptions
DefaultRow ==
    [id |-> 0, user_id |-> NULL, stripe_subscription_id |-> NULL,
     stripe_price_id |-> "", plan_tier |-> "free", status |-> "trialing",
     trial_ends_at |-> NULL, current_period |-> NULL,
     cancel_at_period_end |-> FALSE, canceled_at |-> NULL]

Merge(row, values) ==
    [c \in DOMAIN row |-> IF c \in DOMAIN values THEN values[c] ELSE row[c]]

\* CREATE TYPE public.subscription_status / public.plan_tier AS ENUM
subscription_status ==
    {"trialing", "active", "past_due", "canceled", "unpaid", "incomplete"}

plan_tier == {"free", "pro", "team", "enterprise"}

\* a value outside a column's enum type makes the statement fail
FitsColumns(values) ==
    /\ ("status" \in DOMAIN values) => values.status \in subscription_status
    /\ ("plan_tier" \in DOMAIN values) => values.plan_tier \in plan_tier

\* .upsert(values, { onConflict: column }): INSERT ... ON CONFLICT (column)
\* DO UPDATE SET ...; the statement is rejected when no unique index covers
\* the conflict column, when a value does not fit its column's type, and when
\* its outcome would break a unique constraint.
\* Result: the new table, or the table unchanged on error.
Upsert(table, values, column) ==
    IF column \notin UniqueColumns \/ ~FitsColumns(values) THEN table
    ELSE LET hit == {row \in table : row[column] = values[column]}
             result ==
                 IF hit = {}
                 THEN table \cup {Merge([DefaultRow EXCEPT !.id = FreshId(table)], values)}
                 ELSE (table \ hit) \cup {Merge(row, values) : row \in hit}
         IN  IF KeepsUnique(result) THEN result ELSE table

\* .update(values).eq(column, value)
Update(table, values, column, value) ==
    LET result == {IF row[column] = value THEN Merge(row, values) ELSE row : row \in table}
    IN  IF FitsColumns(values) /\ KeepsUnique(result) THEN result ELSE table

\* ---- the events the provider sends
NoEvent ==
    [type |-> "none", user |-> NULL, customer |-> NULL, sub |-> NULL,
     price |-> "", status |-> "", trial_end |-> NULL, period |-> NULL,
     cancel_at_period_end |-> FALSE, canceled_at |-> NULL, billing_reason |-> ""]

\* status, trial_end, cancel_at_period_end, canceled_at of a subscription;
\* Stripe.Subscription.Status also has incomplete_expired and paused
SubscriptionStates ==
    {<<"trialing", FutureHour, FALSE, NULL>>,
     <<"paused", NULL, FALSE, NULL>>,
     <<"active", NULL, FALSE, NULL>>,
     <<"active", FutureHour, FALSE, NULL>>,
     <<"active", PastHour, TRUE, PastHour>>,
     <<"past_due", NULL, FALSE, NULL>>,
     <<"canceled", NULL, FALSE, PastHour>>}

SubscriptionOf(type, user, customer, sub, price, st) ==
    [NoEvent EXCEPT !.type = type, !.user = user, !.customer = customer,
                    !.sub = sub, !.price = price, !.status = st[1],
                    !.trial_end = st[2], !.period = WebhookNow,
                    !.cancel_at_period_end = st[3], !.canceled_at = st[4]]

CheckoutEvents ==
    {SubscriptionOf("checkout.session.completed", user, NULL, sub, price, st) :
        user \in {NULL, 1}, sub \in SubIds, price \in {ProPrice, TeamPrice, OtherPrice},
        st \in {<<"trialing", FutureHour, FALSE, NULL>>, <<"active", NULL, FALSE, NULL>>}}

UpdatedEvents ==
    {SubscriptionOf("customer.subscription.updated", who[1], who[2], sub, price, st) :
        who \in {<<1, NULL>>, <<NULL, 1>>, <<NULL, 2>>}, sub \in SubIds,
        price \in {TeamPrice, OtherPrice}, st \in SubscriptionStates \ {<<"trialing", FutureHour, FALSE, NULL>>}}

DeletedEvents ==
    {[NoEvent EXCEPT !.type = "customer.subscription.deleted", !.sub = sub] : sub \in SubIds}

InvoiceEvents ==
    {[NoEvent EXCEPT !.type = type, !.sub = sub, !.billing_reason = reason] :
        type \in {"invoice.payment_failed", "invoice.payment_succeeded"},
        sub \in SubIds \cup {NULL},
        reason \in {"subscription_cycle", "subscription_create"}}

OtherEvents == {[NoEvent EXCEPT !.type = "customer.created"]}

Events == CheckoutEvents \cup UpdatedEvents \cup DeletedEvents \cup InvoiceEvents \cup OtherEvents

\* ---- the handler
NewRequest ==
    [pc |-> "new", signature |-> "absent", event |-> NoEvent, response |-> 0,
     retrieved |-> FALSE]

\* rows that exist before the deliveries: written by the service role
InitialRows ==
    {[DefaultRow EXCEPT !.id = 1, !.user_id = 1, !.stripe_subscription_id = 1,
                        !.stripe_price_id = ProPrice, !.plan_tier = "pro",
                        !.status = st, !.current_period = PastHour] :
        st \in {"active", "canceled"}}
    \cup
    {[DefaultRow EXCEPT !.id = 2, !.user_id = 2, !.stripe_subscription_id = 2,
                        !.stripe_price_id = TeamPrice, !.plan_tier = "team",
                        !.status = "trialing", !.trial_ends_at = FutureHour,
                        !.current_period = PastHour]}

WebhookInit ==
    /\ now = WebhookNow
    /\ subscriptions \in {t \in SUBSET InitialRows : KeepsUnique(t)}
    /\ customers = {1}
    /\ request = [q \in Requests |-> NewRequest]
    /\ dbOps = [q \in Requests |-> 0]
    /\ PureIdle /\ DispatchIdle /\ RepoIdle /\ RenewIdle /\ TeamIdle /\ CheckoutIdle

constructEventUnverified(signature) == TRUE

\* stripe.webhooks.constructEvent(body, signature, webhookSecret) returns the
\* event when the signature verifies and throws otherwise
constructEvent(signature) == signature = "valid"

\* lines 20-36: the signature header check, then the verification; a throw
\* is answered with 400 by the catch (lines 183-189)
Receive(q) ==
    /\ request[q].pc = "new"
    /\ \E e \in Events : \E sig \in {"absent", "forged", "valid"} :
        request' = [request EXCEPT ![q] =
            IF sig = "absent"
            THEN [@ EXCEPT !.pc = "done", !.signature = sig, !.event = e, !.response = 400]
            ELSE IF ~constructEvent(sig)
            THEN [@ EXCEPT !.pc = "done", !.signature = sig, !.event = e, !.response = 400]
            ELSE [@ EXCEPT !.pc = "switch", !.signature = sig, !.event = e]]
    /\ UNCHANGED <<now, subscriptions, customers, dbOps>>
    /\ UNCHANGED <<pureVars, dispatchVars, repoVars, renewVars, teamVars, checkoutVars>>

Ack(q) == [request EXCEPT ![q].pc = "done", ![q].response = 200]

\* lines 39-78
CheckoutCompleted(q) ==
    LET e == request[q].event IN
    /\ request[q].pc = "switch"
    /\ e.type = "checkout.session.completed"
    /\ IF e.user = NULL
       THEN /\ request' = Ack(q)
            /\ UNCHANGED <<subscriptions, dbOps>>
       ELSE \/ \* stripe.subscriptions.retrieve throws
               /\ request' = [request EXCEPT ![q].pc = "done", ![q].response = 400]
               /\ UNCHANGED <<subscriptions, dbOps>>
            \/ /\ subscriptions' =
                    Upsert(subscriptions,
                           [user_id |-> e.user,
                            stripe_subscription_id |-> e.sub,
                            stripe_price_id |-> e.price,
                            plan_tier |-> PRICE_TO_TIER(e.price),
                            status |-> IF e.status = "trialing" THEN "trialing" ELSE "active",
                            trial_ends_at |-> e.trial_end,
                            current_period |-> e.period],
                           "user_id")
               /\ dbOps' = [dbOps EXCEPT ![q] = @ + 1]
               /\ request' = [Ack(q) EXCEPT ![q].retrieved = TRUE]
    /\ UNCHANGED <<now, customers>>
    /\ UNCHANGED <<pureVars, dispatchVars, repoVars, renewVars, teamVars, checkoutVars>>

\* lines 80-96: without a user id in the metadata, the profile is looked up
\* by the provider's customer id
SubscriptionUpdatedLookup(q) ==
    LET e == request[q].event IN
    /\ request[q].pc = "switch"
    /\ e.type = "customer.subscription.updated"
    /\ IF e.user # NULL
       THEN /\ request' = [request EXCEPT ![q].pc = "update"]
            /\ UNCHANGED dbOps
       ELSE /\ dbOps' = [dbOps EXCEPT ![q] = @ + 1]
            /\ request' = IF e.customer \in customers
                          THEN [request EXCEPT ![q].pc = "update"]
                          ELSE Ack(q)
    /\ UNCHANGED <<now, subscriptions, customers>>
    /\ UNCHANGED <<pureVars, dispatchVars, repoVars, renewVars, teamVars, checkoutVars>>

SubscriptionUpdatedUnlessCanceled(q) ==
    LET e == request[q].event
        st == IF e.status = "active" /\ e.trial_end # NULL /\ e.trial_end > now
              THEN "trialing" ELSE e.status
        open == {row \in subscriptions : row.status # "canceled"}
    IN
    /\ request[q].pc = "update"
    /\ subscriptions' =
          (subscriptions \ open) \cup
          Update(open,
                 [stripe_price_id |-> e.price,
                  plan_tier |-> PRICE_TO_TIER(e.price),
                  status |-> st,
                  current_period |-> e.period,
                  cancel_at_period_end |-> e.cancel_at_period_end,
                  canceled_at |-> e.canceled_at],
                 "stripe_subscription_id", e.sub)
    /\ dbOps' = [dbOps EXCEPT ![q] = @ + 1]
    /\ request' = Ack(q)
    /\ UNCHANGED <<now, customers>>
    /\ UNCHANGED <<pureVars, dispatchVars, repoVars, renewVars, teamVars, checkoutVars>>

\* lines 98-128
SubscriptionUpdated(q) ==
    LET e == request[q].event
        st == IF e.status = "active" /\ e.trial_end # NULL /\ e.trial_end > now
              THEN "trialing" ELSE e.status
    IN
    /\ request[q].pc = "update"
    /\ subscriptions' =
          Update(subscriptions,
                 [stripe_price_id |-> e.price,
                  plan_tier |-> PRICE_TO_TIER(e.price),
                  status |-> st,
                  current_period |-> e.period,
                  cancel_at_period_end |-> e.cancel_at_period_end,
                  canceled_at |-> e.canceled_at],
                 "stripe_subscription_id", e.sub)
    /\ dbOps' = [dbOps EXCEPT ![q] = @ + 1]
    /\ request' = Ack(q)
    /\ UNCHANGED <<now, customers>>
    /\ UNCHANGED <<pureVars, dispatchVars, repoVars, renewVars, teamVars, checkoutVars>>

\* lines 130-144
SubscriptionDeleted(q) ==
    LET e == request[q].event IN
    /\ request[q].pc = "switch"
    /\ e.type = "customer.subscription.deleted"
    /\ subscriptions' =
          Update(subscriptions, [status |-> "canceled", canceled_at |-> now],
                 "stripe_subscription_id", e.sub)
    /\ dbOps' = [dbOps EXCEPT ![q] = @ + 1]
    /\ request' = Ack(q)
    /\ UNCHANGED <<now, customers>>
    /\ UNCHANGED <<pureVars, dispatchVars, repoVars, renewVars, teamVars, checkoutVars>>

\* lines 146-158
InvoicePaymentFailed(q) ==
    LET e == request[q].event IN
    /\ request[q].pc = "switch"
    /\ e.type = "invoice.payment_failed"
    /\ IF e.sub # NULL
       THEN /\ subscriptions' =
                  Update(subscriptions, [status |-> "past_due"],
                         "stripe_subscription_id", e.sub)
            /\ dbOps' = [dbOps EXCEPT ![q] = @ + 1]
       ELSE UNCHANGED <<subscriptions, dbOps>>
    /\ request' = Ack(q)
    /\ UNCHANGED <<now, customers>>
    /\ UNCHANGED <<pureVars, dispatchVars, repoVars, renewVars, teamVars, checkoutVars>>

InvoicePaymentSucceededAnyReason(q) ==
    LET e == request[q].event IN
    /\ request[q].pc = "switch"
    /\ e.type = "invoice.payment_succeeded"
    /\ IF e.sub # NULL
       THEN /\ subscriptions' =
                  Update(subscriptions, [status |-> "active"],
                         "stripe_subscription_id", e.sub)
            /\ dbOps' = [dbOps EXCEPT ![q] = @ + 1]
       ELSE UNCHANGED <<subscriptions, dbOps>>
    /\ request' = Ack(q)
    /\ UNCHANGED <<now, customers>>
    /\ UNCHANGED <<pureVars, dispatchVars, repoVars, renewVars, teamVars, checkoutVars>>

\* lines 160-173
InvoicePaymentSucceeded(q) ==
    LET e == request[q].event IN
    /\ request[q].pc = "switch"
    /\ e.type = "invoice.payment_succeeded"
    /\ IF e.sub # NULL /\ e.billing_reason = "subscription_cycle"
       THEN /\ subscriptions' =
                  Update(subscriptions, [status |-> "active"],
                         "stripe_subscription_id", e.sub)
            /\ dbOps' = [dbOps EXCEPT ![q] = @ + 1]
       ELSE UNCHANGED <<subscriptions, dbOps>>
    /\ request' = Ack(q)
    /\ UNCHANGED <<now, customers>>
    /\ UNCHANGED <<pureVars, dispatchVars, repoVars, renewVars, teamVars, checkoutVars>>

HandledTypes ==
    {"checkout.session.completed", "customer.subscription.updated",
     "customer.subscription.deleted", "invoice.payment_failed",
     "invoice.payment_succeeded"}

UnhandledEventRejected(q) ==
    /\ request[q].pc = "switch"
    /\ request[q].event.type \notin HandledTypes
    /\ request' = [request EXCEPT ![q].pc = "done", ![q].response = 400]
    /\ UNCHANGED <<now, subscriptions, customers, dbOps>>
    /\ UNCHANGED <<pureVars, dispatchVars, repoVars, renewVars, teamVars, checkoutVars>>

\* lines 175-182: the default case
UnhandledEvent(q) ==
    /\ request[q].pc = "switch"
    /\ request[q].event.type \notin HandledTypes
    /\ request' = Ack(q)
    /\ UNCHANGED <<now, subscriptions, customers, dbOps>>
    /\ UNCHANGED <<pureVars, dispatchVars, repoVars, renewVars, teamVars, checkoutVars>>

WebhookNext ==
    \E q \in Requests :
        \/ Receive(q)
        \/ CheckoutCompleted(q)
        \/ SubscriptionUpdatedLookup(q)
        \/ SubscriptionUpdated(q)
        \/ SubscriptionDeleted(q)
        \/ InvoicePaymentFailed(q)
        \/ InvoicePaymentSucceeded(q)
        \/ UnhandledEvent(q)

SpecWebhook == WebhookInit /\ [][WebhookNext]_vars

(***************************************************************************)
(* Deadline repository: inserts and deletes of one signed-in user's rows   *)
(* of public.deadlines (useDeadlines.ts), the BEFORE INSERT rate-limit     *)
(* trigger and the plan-limit functions                                    *)
(***************************************************************************)
RepoUser == CHOOSE u \in Users : TRUE
RepoMaxTicks == 2       \* how often the repository clock advances (by half a day)
RepoTimes == {k * (HoursPerDay \div 2) : k \in 0..RepoMaxTicks}
MaxDeadlinesPerDay == 100

\* get_plan_limits(tier)->>'deadlines' and PLAN_LIMITS[tier].deadlines
get_plan_limits(tier) ==
    CASE tier = "free" -> [deadlines |-> 5]
      [] tier = "pro" -> [deadlines |-> 0 - 1]
      [] tier = "team" -> [deadlines |-> 0 - 1]
      [] tier = "enterprise" -> [deadlines |-> 0 - 1]
      [] OTHER -> [deadlines |-> 5]

\* COALESCE(s.plan_tier, 'free') over profiles LEFT JOIN subscriptions with
\* status active or trialing (can_create_deadline), and
\* subscription?.plan_tier || 'free' (useSubscription)
user_tier(user) ==
    LET live == {row \in subscriptions :
                    row.user_id = user /\ row.status \in {"active", "trialing"}}
    IN  IF live = {} THEN "free" ELSE (CHOOSE row \in live : TRUE).plan_tier

\* SELECT COUNT(*) FROM public.deadlines WHERE user_id = user_uuid
RECURSIVE CountRows(_, _)
CountRows(rows, times) ==
    IF times = {} THEN 0
    ELSE LET t == CHOOSE x \in times : TRUE
         IN  rows[t] + CountRows(rows, times \ {t})

current_count == CountRows(owned, RepoTimes)

\* public.can_create_deadline(user_uuid); no trigger, policy or caller
\* invokes it
can_create_deadline(user) ==
    LET deadline_limit == get_plan_limits(user_tier(user)).deadlines
    IN  IF deadline_limit = 0 - 1 THEN TRUE ELSE current_count < deadline_limit

\* SELECT COUNT(*) ... WHERE user_id = NEW.user_id
\*   AND created_at > NOW() - INTERVAL '1 day'
RecentCount(clock) ==
    CountRows(owned, {t \in RepoTimes : t > clock - HoursPerDay})

\* check_deadline_rate_limit(): TRUE when the trigger raises
check_deadline_rate_limit(clock) == RecentCount(clock) > MaxDeadlinesPerDay

RepoInit ==
    /\ now = 0
    /\ owned = [t \in RepoTimes |-> 0]
    /\ rejected = FALSE
    /\ subscriptions \in
          {{}} \cup
          {{[DefaultRow EXCEPT !.id = 1, !.user_id = RepoUser,
                               !.stripe_subscription_id = 1,
                               !.plan_tier = tier, !.status = "active"]} :
              tier \in {"pro", "team", "enterprise"}}
    /\ customers = {}
    /\ request = <<>>
    /\ dbOps = <<>>
    /\ ticks = 0
    /\ deadlines = <<>>
    /\ profiles = {}
    /\ run = <<>>
    /\ emails = <<>>
    /\ PureIdle /\ RenewIdle /\ TeamIdle /\ CheckoutIdle

RepoTick ==
    /\ ticks < RepoMaxTicks
    /\ now' = now + (HoursPerDay \div 2)
    /\ ticks' = ticks + 1
    /\ UNCHANGED <<deadlines, profiles, run, emails>>
    /\ UNCHANGED <<pureVars, webhookVars, repoVars, renewVars, teamVars, checkoutVars>>

\* createDeadline.mutationFn (lines 61-92): the count it reads is not used;
\* the insert passes the row-level policy (user_id = auth.uid()) and the
\* BEFORE INSERT trigger enforce_deadline_rate_limit
createDeadline ==
    /\ IF check_deadline_rate_limit(now)
       THEN /\ rejected' = TRUE
            /\ owned' = owned
       ELSE /\ rejected' = FALSE
            /\ owned' = [owned EXCEPT ![now] = @ + 1]
    /\ UNCHANGED <<now, pureVars, dispatchVars, webhookVars, renewVars, teamVars, checkoutVars>>

\* deleteDeadline.mutationFn (lines 137-145)
deleteDeadline ==
    /\ \E t \in RepoTimes :
        /\ owned[t] > 0
        /\ owned' = [owned EXCEPT ![t] = @ - 1]
    /\ UNCHANGED <<now, rejected, pureVars, dispatchVars, webhookVars, renewVars,
                   teamVars, checkoutVars>>

RepoNext ==
    \/ RepoTick
    \/ createDeadline
    \/ deleteDeadline

SpecRepo == RepoInit /\ [][RepoNext]_vars

(***************************************************************************)
(* Recurrence scheduler (deadline-utils.ts, getNextDueDate) and the        *)
(* auto-renewal function public.create_next_recurring_deadline.            *)
(*                                                                         *)
(* A calendar date is a record [year, month, day]; the clock's day 0 is    *)
(* January 1 of the first year of the calendar.                            *)
(***************************************************************************)
RenewMaxTicks == 2      \* how often the clock advances
MaxRows == 3            \* rows of public.deadlines in the renewal model
MaxInvocations == 3     \* runs of create_next_recurring_deadline

Years == 2024..2027
FirstYear == CHOOSE y \in Years : \A z \in Years : y <= z

IsLeapYear(y) == y % 4 = 0 /\ (y % 100 # 0 \/ y % 400 = 0)

DaysInMonth(y, m) ==
    IF m = 2 THEN (IF IsLeapYear(y) THEN 29 ELSE 28)
    ELSE IF m \in {4, 6, 9, 11} THEN 30
    ELSE 31

Calendar ==
    {date \in [year : Years, month : 1..12, day : 1..31] :
        date.day <= DaysInMonth(date.year, date.month)}

\* the days from January 1 of FirstYear to the first of month m of year y
RECURSIVE DaysBeforeMonth(_, _)
DaysBeforeMonth(y, m) ==
    IF m = 1
    THEN (IF y = FirstYear THEN 0 ELSE DaysBeforeMonth(y - 1, 12) + DaysInMonth(y - 1, 12))
    ELSE DaysBeforeMonth(y, m - 1) + DaysInMonth(y, m - 1)

DayNumber(date) == DaysBeforeMonth(date.year, date.month) + date.day - 1

\* the date n days after the first of month m of year y
RECURSIVE DateFrom(_, _, _)
DateFrom(y, m, n) ==
    IF n < DaysInMonth(y, m) THEN [year |-> y, month |-> m, day |-> n + 1]
    ELSE IF m = 12 THEN DateFrom(y + 1, 1, n - DaysInMonth(y, m))
    ELSE DateFrom(y, m + 1, n - DaysInMonth(y, m))

DateOf(n) == DateFrom(FirstYear, 1, n)

\* date-fns addDays
addDays(date, amount) == DateOf(DayNumber(date) + amount)

addMonthsRollOver(date, amount) ==
    LET index == date.year * 12 + (date.month - 1) + amount
    IN  DateFrom(index \div 12, (index % 12) + 1, date.day - 1)

\* date-fns addMonths: the same day of the month `amount` months on, or the
\* last day of that month when it is shorter
addMonths(date, amount) ==
    LET index == date.year * 12 + (date.month - 1) + amount
        y == index \div 12
        m == (index % 12) + 1
        daysInMonth == DaysInMonth(y, m)
    IN  [year |-> y, month |-> m,
         day |-> IF date.day >= daysInMonth THEN daysInMonth ELSE date.day]

\* date-fns addYears
addYears(date, amount) == addMonths(date, amount * 12)

RecurrencePattern ==
    {"none", "monthly", "quarterly", "semi_annual", "annual", "biennial", "custom"}

\* interval_days of create_next_recurring_deadline
IntervalDays(recurrence, recurrence_interval_days) ==
    CASE recurrence = "monthly" -> 30
      [] recurrence = "quarterly" -> 90
      [] recurrence = "semi_annual" -> 180
      [] recurrence = "annual" -> 365
      [] recurrence = "biennial" -> 730
      [] recurrence = "custom" ->
            IF recurrence_interval_days = NULL THEN 365 ELSE recurrence_interval_days
      [] OTHER -> NULL

getNextDueDateFixedDays(currentDueDate, recurrence, customDays) ==
    IF recurrence = "none" THEN currentDueDate
    ELSE addDays(currentDueDate, IntervalDays(recurrence, customDays))

\* getNextDueDate; customDays || 365 is 365 for undefined and for 0
getNextDueDate(currentDueDate, recurrence, customDays) ==
    CASE recurrence = "monthly" -> addMonths(currentDueDate, 1)
      [] recurrence = "quarterly" -> addMonths(currentDueDate, 3)
      [] recurrence = "semi_annual" -> addMonths(currentDueDate, 6)
      [] recurrence = "annual" -> addYears(currentDueDate, 1)
      [] recurrence = "biennial" -> addYears(currentDueDate, 2)
      [] recurrence = "custom" ->
            addDays(currentDueDate,
                    IF customDays = NULL \/ customDays = 0 THEN 365 ELSE customDays)
      [] OTHER -> currentDueDate

\* the due dates of the deadlines that exist at the start: in the first year,
\* the first, the middle and the last days of every month
FirstDueDates ==
    {date \in Calendar : date.year = FirstYear /\ (date.day \in {1, 15} \/ date.day >= 28)}

NextId(table) ==
    1 + (CHOOSE m \in {row.id : row \in table} : \A row \in table : row.id <= m)

RenewInit ==
    /\ now = 0
    /\ \E due \in FirstDueDates : \E pattern \in RecurrencePattern :
       \E days \in {NULL, 0, 45} : \E renew \in BOOLEAN :
          recurring = {[id |-> 1, title |-> "Business license", due_date |-> due,
                        recurrence |-> pattern, recurrence_interval_days |-> days,
                        auto_renew |-> renew, parent_deadline_id |-> NULL]}
    /\ scheduled = {}
    /\ invoked = [id |-> NULL, n |-> 0]
    /\ ticks = 0
    /\ deadlines = <<>>
    /\ profiles = {}
    /\ run = <<>>
    /\ emails = <<>>
    /\ PureIdle /\ WebhookIdle /\ RepoIdle /\ TeamIdle /\ CheckoutIdle

\* the clock advances by a day or by 200 days
RenewTick ==
    /\ ticks < RenewMaxTicks
    /\ \E days \in {1, 200} : now' = now + days * HoursPerDay
    /\ ticks' = ticks + 1
    /\ UNCHANGED <<deadlines, profiles, run, emails>>
    /\ UNCHANGED <<pureVars, webhookVars, repoVars, renewVars, teamVars, checkoutVars>>

\* a caller applies getNextDueDate to a deadline's recurrence columns
GetNextDueDate ==
    /\ \E deadline \in recurring :
        scheduled' =
            {[currentDueDate |-> deadline.due_date,
              recurrence |-> deadline.recurrence,
              customDays |-> deadline.recurrence_interval_days,
              result |-> getNextDueDate(deadline.due_date, deadline.recurrence,
                                        deadline.recurrence_interval_days)]}
    /\ scheduled' # scheduled
    /\ UNCHANGED <<now, recurring, invoked>>
    /\ UNCHANGED <<pureVars, dispatchVars, webhookVars, repoVars, teamVars, checkoutVars>>

create_next_recurring_deadline_guarded(new) ==
    LET interval_days == IntervalDays(new.recurrence, new.recurrence_interval_days) IN
    IF new.recurrence = "none" \/ interval_days = NULL THEN recurring
    ELSE IF new.auto_renew /\ DayNumber(new.due_date) < today
            /\ ~\E row \in recurring : row.parent_deadline_id = new.id
         THEN recurring \cup
                {[new EXCEPT !.id = NextId(recurring),
                             !.due_date = addDays(new.due_date, interval_days),
                             !.parent_deadline_id = new.id]}
         ELSE recurring

\* public.create_next_recurring_deadline() with the row NEW (here: new): the table after
\* the function has run (due_date + interval_days is date + integer, a number
\* of days; CURRENT_DATE is the clock's date)
create_next_recurring_deadline(new) ==
    LET interval_days == IntervalDays(new.recurrence, new.recurrence_interval_days) IN
    IF new.recurrence = "none" \/ interval_days = NULL THEN recurring
    ELSE IF new.auto_renew /\ DayNumber(new.due_date) < today
         THEN recurring \cup
                {[new EXCEPT !.id = NextId(recurring),
                             !.due_date = addDays(new.due_date, interval_days),
                             !.parent_deadline_id = new.id]}
         ELSE recurring

\* the function is run for a row (by hand, by a scheduled job or by a
\* trigger on the row)
InvokeCreateNext ==
    /\ Cardinality(recurring) < MaxRows
    /\ invoked.n < MaxInvocations
    /\ \E new \in recurring :
        /\ recurring' = create_next_recurring_deadline(new)
        /\ invoked' = [id |-> new.id, n |-> invoked.n + 1]
    /\ UNCHANGED <<now, scheduled>>
    /\ UNCHANGED <<pureVars, dispatchVars, webhookVars, repoVars, teamVars, checkoutVars>>

RenewNext ==
    \/ RenewTick
    \/ GetNextDueDate
    \/ InvokeCreateNext

SpecRenew == RenewInit /\ [][RenewNext]_vars

(***************************************************************************)
(* Organizations, invitations and the row-level policies of                *)
(* public.deadlines (the two migrations, part_000, part_001, useTeam.ts)   *)
(*                                                                         *)
(* The email address of user u is written u; an invitation's token is      *)
(* written as its id (both are generated unique values).                   *)
(***************************************************************************)
TeamUsers == {1, 2}         \* auth.users, each with its profile row
MaxOrgs == 2                \* organizations created
MaxInvitations == 2         \* invitation rows inserted
MaxTeamDeadlines == 2       \* deadline rows inserted
MaxTeamTicks == 1           \* how often the clock advances
InvitationDays == 7         \* expires_at DEFAULT (now() + INTERVAL '7 days')

\* the SQL comparison a = b, which is not true when an operand is NULL
SqlEq(a, b) == a # NULL /\ b # NULL /\ a = b

user_belongs_to_org_once_joined(_user_id, _org_id) ==
    \/ \E id \in TeamUsers :
          SqlEq(id, _user_id) /\ SqlEq(teamProfiles[id].organization_id, _org_id)
    \/ \E inv \in invitations :
          /\ SqlEq(inv.email, _user_id)
          /\ SqlEq(inv.organization_id, _org_id)
          /\ inv.status = "accepted"

\* SELECT EXISTS (SELECT 1 FROM public.profiles
\*                WHERE id = _user_id AND organization_id = _org_id)
user_belongs_to_org(_user_id, _org_id) ==
    \E id \in TeamUsers :
        SqlEq(id, _user_id) /\ SqlEq(teamProfiles[id].organization_id, _org_id)

\* ... AND role = 'org_admin'
is_org_admin(_user_id, _org_id) ==
    \E id \in TeamUsers :
        /\ SqlEq(id, _user_id)
        /\ SqlEq(teamProfiles[id].organization_id, _org_id)
        /\ teamProfiles[id].role = "org_admin"

\* "Users can view their own deadlines"
ViewOwnDeadlines(uid, row) ==
    uid # NULL /\ SqlEq(uid, row.user_id)

\* "Users can view organization deadlines"
ViewOrganizationDeadlines(uid, row) ==
    /\ uid # NULL
    /\ row.organization_id # NULL
    /\ user_belongs_to_org(uid, row.organization_id)

\* SELECT on public.deadlines as auth.uid() = uid (NULL: no session): the
\* rows that pass one of the permissive policies
SelectDeadlines(uid) ==
    {row \in teamDeadlines :
        ViewOwnDeadlines(uid, row) \/ ViewOrganizationDeadlines(uid, row)}

\* "Users can update their own profile": the profile rows an UPDATE issued as
\* uid can reach
UpdatableProfiles(uid) == {id \in TeamUsers : SqlEq(uid, id)}

\* handle_new_user(): a profile without organization, role individual
TeamInit ==
    /\ now = 0
    /\ ticks = 0
    /\ teamProfiles = [u \in TeamUsers |-> [organization_id |-> NULL, role |-> "individual"]]
    /\ organizations = {}
    /\ invitations = {}
    /\ teamDeadlines = {}
    /\ teamCall = NoCall
    /\ deadlines = <<>>
    /\ profiles = {}
    /\ run = <<>>
    /\ emails = <<>>
    /\ PureIdle /\ WebhookIdle /\ RepoIdle /\ RenewIdle /\ CheckoutIdle

\* the clock advances by a day or by the lifetime of an invitation
TeamTick ==
    /\ ticks < MaxTeamTicks
    /\ \E days \in {1, InvitationDays} : now' = now + days * HoursPerDay
    /\ ticks' = ticks + 1
    /\ UNCHANGED <<deadlines, profiles, run, emails>>
    /\ UNCHANGED <<pureVars, webhookVars, repoVars, renewVars, teamVars, checkoutVars>>

\* public.create_organization_with_admin(org_name, org_industry)
CreateOrganization(caller) ==
    /\ Cardinality(organizations) < MaxOrgs
    /\ LET new_org_id == Cardinality(organizations) + 1 IN
        /\ organizations' = organizations \cup {new_org_id}
        /\ teamProfiles' = [teamProfiles EXCEPT
                               ![caller] = [organization_id |-> new_org_id,
                                            role |-> "org_admin"]]
    /\ teamCall' = [op |-> "create_organization", caller |-> caller,
                    token |-> NULL, ok |-> TRUE]
    /\ UNCHANGED <<now, invitations, teamDeadlines>>
    /\ UNCHANGED <<pureVars, dispatchVars, webhookVars, repoVars, renewVars, checkoutVars>>

\* CONSTRAINT unique_pending_invitation UNIQUE (organization_id, email, status)
unique_pending_invitation(table) ==
    \A a, b \in table :
        (/\ a.organization_id = b.organization_id
         /\ a.email = b.email
         /\ a.status = b.status) => a = b

\* the invitation function (part_000, lines 42-105): the caller must be the
\* admin of an organization, the email must not be a member's and must have
\* no pending invitation of that organization; the insert is also subject
\* to the policy "Org admins can create invitations" and to
\* unique_pending_invitation
SendInvitation(caller, email, role) ==
    LET profile == teamProfiles[caller]
        existingProfile ==
            \E id \in TeamUsers :
                id = email /\ SqlEq(teamProfiles[id].organization_id, profile.organization_id)
        existingInvite ==
            \E inv \in invitations :
                /\ inv.email = email
                /\ inv.organization_id = profile.organization_id
                /\ inv.status = "pending"
        row == [id |-> Cardinality(invitations) + 1,
                organization_id |-> profile.organization_id,
                email |-> email, role |-> role, status |-> "pending",
                expires_at |-> now + InvitationDays * HoursPerDay]
        accepted ==
            /\ profile.organization_id # NULL
            /\ profile.role = "org_admin"
            /\ ~existingProfile
            /\ ~existingInvite
            /\ is_org_admin(caller, row.organization_id)
            /\ unique_pending_invitation(invitations \cup {row})
    IN
    /\ Cardinality(invitations) < MaxInvitations
    /\ invitations' = IF accepted THEN invitations \cup {row} ELSE invitations
    /\ teamCall' = [op |-> "invite", caller |-> caller,
                    token |-> IF accepted THEN row.id ELSE NULL, ok |-> accepted]
    /\ UNCHANGED <<now, teamProfiles, organizations, teamDeadlines>>
    /\ UNCHANGED <<pureVars, dispatchVars, webhookVars, repoVars, renewVars, checkoutVars>>

\* public.accept_invitation(invitation_token) called as uid: the profiles and
\* invitations after the call and whether it returned true; an exception
\* (no invitation found, a constraint violated by an UPDATE) undoes the
\* function's statements
accept_invitation(uid, invitation_token) ==
    LET user_email == uid
        found == {inv \in invitations :
                     /\ inv.id = invitation_token
                     /\ inv.status = "pending"
                     /\ inv.expires_at > now
                     /\ SqlEq(inv.email, user_email)}
        failed == [ok |-> FALSE, profiles |-> teamProfiles, invitations |-> invitations]
    IN  IF found = {} THEN failed
        ELSE LET inv == CHOOSE x \in found : TRUE
                 updated == (invitations \ {inv}) \cup {[inv EXCEPT !.status = "accepted"]}
             IN  IF ~unique_pending_invitation(updated) THEN failed
                 ELSE [ok |-> TRUE,
                       profiles |-> [teamProfiles EXCEPT
                                        ![uid] = [organization_id |-> inv.organization_id,
                                                  role |-> inv.role]],
                       invitations |-> updated]

\* useInvitation.acceptInvitation: supabase.rpc('accept_invitation', ...)
AcceptInvitation(caller, token) ==
    LET result == accept_invitation(caller, token) IN
    /\ teamProfiles' = result.profiles
    /\ invitations' = result.invitations
    /\ teamCall' = [op |-> "accept", caller |-> caller, token |-> token,
                    ok |-> result.ok]
    /\ UNCHANGED <<now, organizations, teamDeadlines>>
    /\ UNCHANGED <<pureVars, dispatchVars, webhookVars, repoVars, renewVars, checkoutVars>>

\* public.leave_organization()
LeaveOrganization(caller) ==
    /\ teamProfiles' = [teamProfiles EXCEPT
                           ![caller] = [organization_id |-> NULL, role |-> "individual"]]
    /\ teamCall' = [op |-> "leave", caller |-> caller, token |-> NULL, ok |-> TRUE]
    /\ UNCHANGED <<now, organizations, invitations, teamDeadlines>>
    /\ UNCHANGED <<pureVars, dispatchVars, webhookVars, repoVars, renewVars, checkoutVars>>

\* removeMember.mutationFn (useTeam.ts, lines 262-274): an UPDATE of the
\* member's profile issued with the admin's session; the only UPDATE policy
\* of public.profiles is auth.uid() = id, so the statement reaches the rows
\* of UpdatableProfiles(caller) only, and reaching none is not an error
RemoveMember(caller, memberId) ==
    /\ teamProfiles[caller].role = "org_admin"
    /\ memberId # caller
    /\ teamProfiles' =
          [id \in TeamUsers |->
              IF id = memberId /\ id \in UpdatableProfiles(caller)
              THEN [organization_id |-> NULL, role |-> "individual"]
              ELSE teamProfiles[id]]
    /\ teamCall' = [op |-> "remove", caller |-> caller, token |-> NULL, ok |-> TRUE]
    /\ UNCHANGED <<now, organizations, invitations, teamDeadlines>>
    /\ UNCHANGED <<pureVars, dispatchVars, webhookVars, repoVars, renewVars, checkoutVars>>

\* createDeadline.mutationFn with an organization_id in its input: the INSERT
\* policy checks user_id = auth.uid() only, the foreign key that the
\* organization exists
CreateTeamDeadline(caller, organization_id) ==
    /\ Cardinality(teamDeadlines) < MaxTeamDeadlines
    /\ organization_id \in organizations \cup {NULL}
    /\ teamDeadlines' = teamDeadlines \cup
                           {[user_id |-> caller, organization_id |-> organization_id]}
    /\ teamCall' = [op |-> "create_deadline", caller |-> caller, token |-> NULL,
                    ok |-> TRUE]
    /\ UNCHANGED <<now, teamProfiles, organizations, invitations>>
    /\ UNCHANGED <<pureVars, dispatchVars, webhookVars, repoVars, renewVars, checkoutVars>>

TeamNext ==
    \/ TeamTick
    \/ \E caller \in TeamUsers :
        \/ CreateOrganization(caller)
        \/ \E email \in TeamUsers : \E role \in {"org_member", "org_admin"} :
              SendInvitation(caller, email, role)
        \/ LeaveOrganization(caller)
        \/ \E memberId \in TeamUsers : RemoveMember(caller, memberId)
        \/ \E organization_id \in 1..MaxOrgs \cup {NULL} :
              CreateTeamDeadline(caller, organization_id)
    \/ \E caller \in TeamUsers \cup {NULL} : \E token \in 1..MaxInvitations :
          AcceptInvitation(caller, token)

SpecTeam == TeamInit /\ [][TeamNext]_vars

(***************************************************************************)
(* Checkout-session creation (create-checkout-session/index.ts, serve)     *)
(*                                                                         *)
(* One step per awaited call: auth.getUser, the profile query, the         *)
(* provider's customers.create, the profile update, the provider's         *)
(* checkout.sessions.create; requests are free to overlap.                 *)
(***************************************************************************)
CheckoutRequests == {1, 2}
CheckoutUsers == {1, 2}     \* auth.users, each with its profile row

\* PRICE_IDS (lines 15-20): the keys with a price id
PRICE_IDS == {"pro_monthly", "pro_yearly", "team_monthly", "team_yearly"}

NewCheckout ==
    [pc |-> "new", authorization |-> "absent", user |-> NULL, priceKey |-> "",
     customerId |-> NULL, created |-> 0, saved |-> 0, response |-> 0]

CheckoutInit ==
    /\ now = 0
    /\ stripeCustomers = {}
    /\ checkoutProfiles = [u \in CheckoutUsers |-> NULL]
    /\ checkout = [q \in CheckoutRequests |-> NewCheckout]
    /\ PureIdle /\ DispatchIdle /\ WebhookIdle /\ RepoIdle /\ RenewIdle /\ TeamIdle

\* the catch block (lines 125-133): every throw is answered with 400
Throw(q) == [checkout EXCEPT ![q].pc = "done", ![q].response = 400]

\* lines 34-64: the Authorization header, auth.getUser(), the request body
\* and the price key, up to the profile query
Authenticate(q) ==
    /\ checkout[q].pc = "new"
    /\ \E authorization \in {"absent", "unknown", "valid"} :
       \E user \in CheckoutUsers : \E priceKey \in {"pro_monthly", "team_yearly", "gold"} :
          LET seen == [checkout EXCEPT ![q].authorization = authorization,
                                       ![q].priceKey = priceKey,
                                       ![q].user = IF authorization = "valid"
                                                   THEN user ELSE NULL]
          IN  checkout' =
                 IF authorization # "valid" \/ priceKey \notin PRICE_IDS
                 THEN [seen EXCEPT ![q].pc = "done", ![q].response = 400]
                 ELSE [seen EXCEPT ![q].pc = "profile"]
    /\ UNCHANGED <<now, stripeCustomers, checkoutProfiles>>
    /\ UNCHANGED <<pureVars, dispatchVars, webhookVars, repoVars, renewVars, teamVars>>

\* lines 66-75: the profile's stripe_customer_id is read into customerId
SelectProfile(q) ==
    /\ checkout[q].pc = "profile"
    /\ LET customerId == checkoutProfiles[checkout[q].user] IN
          checkout' = [checkout EXCEPT
                          ![q].customerId = customerId,
                          ![q].pc = IF customerId = NULL THEN "create" ELSE "session"]
    /\ UNCHANGED <<now, stripeCustomers, checkoutProfiles>>
    /\ UNCHANGED <<pureVars, dispatchVars, webhookVars, repoVars, renewVars, teamVars>>

\* lines 77-84: stripe.customers.create (no idempotency key, no lookup by
\* metadata): a new customer record with the user's id in its metadata, or a
\* throw
CreateCustomer(q) ==
    /\ checkout[q].pc = "create"
    /\ \/ LET id == Cardinality(stripeCustomers) + 1 IN
            /\ stripeCustomers' =
                  stripeCustomers \cup {[id |-> id, supabase_user_id |-> checkout[q].user]}
            /\ checkout' = [checkout EXCEPT ![q].customerId = id,
                                            ![q].created = @ + 1,
                                            ![q].pc = "save"]
       \/ /\ checkout' = Throw(q)
          /\ UNCHANGED stripeCustomers
    /\ UNCHANGED <<now, checkoutProfiles>>
    /\ UNCHANGED <<pureVars, dispatchVars, webhookVars, repoVars, renewVars, teamVars>>

\* lines 86-90: the customer id is saved to the caller's profile
SaveCustomerId(q) ==
    /\ checkout[q].pc = "save"
    /\ checkoutProfiles' =
          [checkoutProfiles EXCEPT ![checkout[q].user] = checkout[q].customerId]
    /\ checkout' = [checkout EXCEPT ![q].saved = @ + 1, ![q].pc = "session"]
    /\ UNCHANGED <<now, stripeCustomers>>
    /\ UNCHANGED <<pureVars, dispatchVars, webhookVars, repoVars, renewVars, teamVars>>

\* lines 93-123: stripe.checkout.sessions.create for customerId, then the
\* 200 response with the session's URL; or a throw
CreateSession(q) ==
    /\ checkout[q].pc = "session"
    /\ \/ checkout' = [checkout EXCEPT ![q].pc = "done", ![q].response = 200]
       \/ checkout' = Throw(q)
    /\ UNCHANGED <<now, stripeCustomers, checkoutProfiles>>
    /\ UNCHANGED <<pureVars, dispatchVars, webhookVars, repoVars, renewVars, teamVars>>

CheckoutNext ==
    \E q \in CheckoutRequests :
        \/ Authenticate(q)
        \/ SelectProfile(q)
        \/ CreateCustomer(q)
        \/ SaveCustomerId(q)
        \/ CreateSession(q)

SpecCheckout == CheckoutInit /\ [][CheckoutNext]_vars

(***************************************************************************)
(* Claims about the pure functions                                         *)
(***************************************************************************)
classifiedDays == dueDate - today

\* C1: for every integer day difference d = due_date - today the classifier
\* returns the tier of the band d lies in: d<0 overdue, 0..3 critical,
\* 4..7 urgent, 8..14 warning, 15..30 upcoming, 31 and more safe; the ten
\* boundary values -1, 0, 3, 4, 7, 8, 14, 15, 30, 31 map as the spec lists.
C1_ClassifierBands ==
    "classify" \in applied =>
        LET d == classifiedDays IN
        /\ status \in DeadlineStatus
        /\ (status = "overdue") = (d < 0)
        /\ (status = "critical") = (d >= 0 /\ d <= 3)
        /\ (status = "urgent") = (d >= 4 /\ d <= 7)
        /\ (status = "warning") = (d >= 8 /\ d <= 14)
        /\ (status = "upcoming") = (d >= 15 /\ d <= 30)
        /\ (status = "safe") = (d >= 31)
        /\ (d = 0 - 1 => status = "overdue")
        /\ (d \in {0, 3} => status = "critical")
        /\ (d \in {4, 7} => status = "urgent")
        /\ (d \in {8, 14} => status = "warning")
        /\ (d \in {15, 30} => status = "upcoming")
        /\ (d = 31 => status = "safe")

C1_Witness ==
    /\ "classify" \in applied
    /\ classifiedDays = 3
    /\ today > 0
    /\ status = "critical"

\* C23: when the due date moves one day further from today, the tier stays
\* or moves to the next one in the order overdue < critical < urgent <
\* warning < upcoming < safe: it never moves back and never skips a tier.
C23_TierMonotonic ==
    [][("classify" \in applied /\ dueDate' = dueDate + 1 /\ now' = now) =>
          statusOrder[status'] - statusOrder[status] \in {0, 1}
      ]_vars

C23_Witness ==
    /\ "postpone" \in applied
    /\ classifiedDays = 4
    /\ status = "urgent"

\* C24: two consecutive reads of a deadline with the same due date on the
\* same calendar day give the same tier; the tier of an unchanged due date
\* changes only in a step in which the calendar date changes.
C24_StableWithinDay ==
    [][("classify" \in applied /\ dueDate' = dueDate
            /\ now' \div HoursPerDay = now \div HoursPerDay)
          => status' = status
      ]_vars

C24_Witness ==
    /\ "reread" \in applied
    /\ now % HoursPerDay = 23
    /\ dueDate - (now \div HoursPerDay) = 4
    /\ status = "urgent"

C9_WindowElapsedRule ==
    ("evaluate" \in applied /\ daysUntil \in {30, 14, 7, 3, 1}) =>
        /\ (lastReminderSent = NULL => remind = TRUE)
        /\ (lastReminderSent # NULL => (remind = (now - lastReminderSent >= 24)))
        /\ ((lastReminderSent # NULL /\ now - lastReminderSent = 23) => remind = FALSE)
        /\ ((lastReminderSent # NULL /\ now - lastReminderSent \in {24, 25, 30})
                => remind = TRUE)

C9_Witness ==
    /\ "evaluate" \in applied
    /\ daysUntil = 1
    /\ lastReminderSent # NULL
    /\ now - lastReminderSent = 24
    /\ remind = TRUE

(***************************************************************************)
(* Claims about the reminder dispatcher                                    *)
(***************************************************************************)
HasRow(r, id) == \E k \in DOMAIN run[r].rows : run[r].rows[k].id = id

\* the row of deadline id as run r's query returned it
FetchedRow(r, id) ==
    run[r].rows[CHOOSE k \in DOMAIN run[r].rows : run[r].rows[k].id = id]

RECURSIVE EmailsOver(_, _)
EmailsOver(rs, id) ==
    IF rs = {} THEN 0
    ELSE LET r == CHOOSE x \in rs : TRUE
         IN  emails[r][id] + EmailsOver(rs \ {r}, id)

Failures == {"no_profile", "send_failed", "update_failed"}

\* C2: every step that changes a deadline's last_reminder_sent is the update
\* step of a dispatcher run for that deadline, taken after the email API
\* accepted that run's email for it, and writes the current time; a step in
\* which a run skips a deadline, fails to resolve its owner's profile or fails
\* to send leaves that deadline's last_reminder_sent as it was.
C2_UpdateOnlyAfterConfirmedSend ==
    [][\A id \in DeadlineIds :
         /\ deadlines'[id].last_reminder_sent # deadlines[id].last_reminder_sent
               => \E r \in Runs :
                    /\ run[r].pc = "update"
                    /\ Current(r).id = id
                    /\ emails[r][id] = 1
                    /\ run'[r].outcome[id] = "sent"
                    /\ deadlines'[id].last_reminder_sent = now
         /\ \A r \in Runs :
               (/\ run[r].outcome[id] = "none"
                /\ run'[r].outcome[id] \in {"skipped", "no_profile", "send_failed"})
               => deadlines'[id].last_reminder_sent = deadlines[id].last_reminder_sent
      ]_vars

C2_Witness ==
    \E r \in Runs : \E failed, sent \in DeadlineIds :
        /\ run[r].pc = "done"
        /\ run[r].outcome[failed] = "send_failed"
        /\ deadlines[failed].last_reminder_sent = NULL
        /\ run[r].outcome[sent] = "sent"
        /\ deadlines[sent].last_reminder_sent = now

\* C3 (as claimed): when two invocations overlap, a deadline receives at most
\* one reminder email from the two runs together.
C3_NoDuplicateFromOverlappingRuns ==
    \A id \in DeadlineIds :
        (\E r \in Runs : run[r].overlapped) => EmailsOver(Runs, id) <= 1

\* days between the due date and the calendar date on which run r evaluated
\* the deadline
CalendarDaysAtEval(r, id) ==
    FetchedRow(r, id).due_date - (run[r].evalAt[id] \div HoursPerDay)

DueInThreeDaysNoPrior(r, id) ==
    /\ HasRow(r, id)
    /\ run[r].outcome[id] # "none"
    /\ FetchedRow(r, id).last_reminder_sent = NULL
    /\ CalendarDaysAtEval(r, id) = 3

DecidedToday(id) ==
    \/ run[CronRun].outcome[id] # "none"
    \/ run[CronRun].pc = "update" /\ Current(CronRun).id = id

WindowsPassed(id) ==
    {w \in REMINDER_WINDOWS :
        \E day \in 0..today :
            /\ deadlines[id].due_date - day = w
            /\ (day < today \/ DecidedToday(id))}

C12_FailureDoesNotAbortBatch ==
    \A r \in Runs :
        /\ (run[r].pc = "done" /\ run[r].response = 500) => run[r].rows = <<>>
        /\ (run[r].pc = "done" /\ run[r].response # 500) =>
              /\ run[r].response = 200
              /\ \A k \in DOMAIN run[r].rows :
                    LET row == run[r].rows[k]
                        due == shouldSendReminder(
                                   getDaysUntilDeadline(row.due_date, run[r].evalAt[row.id]),
                                   row.last_reminder_sent, run[r].evalAt[row.id])
                    IN  /\ run[r].outcome[row.id] # "none"
                        /\ run[r].evalAt[row.id] # NULL
                        /\ (run[r].outcome[row.id] = "skipped") = ~due
                        /\ (due /\ run[r].outcome[row.id] \notin {"no_profile", "send_failed"})
                              => /\ emails[r][row.id] = 1
                                 /\ run[r].outcome[row.id] \in {"sent", "update_failed"}
              /\ run[r].remindersSkipped =
                    Cardinality({k \in DOMAIN run[r].rows :
                                    run[r].outcome[run[r].rows[k].id] = "skipped"})
              /\ run[r].remindersSent =
                    Cardinality({k \in DOMAIN run[r].rows :
                                    run[r].outcome[run[r].rows[k].id] \in {"sent", "update_failed"}})

C12_Witness ==
    \E r \in Runs :
        /\ run[r].pc = "done"
        /\ run[r].response = 200
        /\ Len(run[r].rows) = 2
        /\ run[r].outcome[run[r].rows[1].id] = "no_profile"
        /\ run[r].outcome[run[r].rows[2].id] = "sent"
        /\ emails[r][run[r].rows[2].id] = 1
        /\ run[r].remindersSent = 1

\* the rows of run r that passed the evaluator and failed at the profile
\* lookup or at the email send
PassedEvaluatorAndFailed(r) ==
    {k \in DOMAIN run[r].rows :
        run[r].outcome[run[r].rows[k].id] \in {"no_profile", "send_failed"}}

\* C27: in every 200 response of the dispatcher, remindersSent +
\* remindersSkipped <= totalDeadlines (the number of rows the query
\* returned), with equality exactly when no row that passed the evaluator
\* failed at the profile lookup or at the email send; remindersSent is the
\* number of rows whose email the API accepted, the rows whose
\* last_reminder_sent update failed included.
C27_CountersWithinTotal ==
    \A r \in Runs :
        (run[r].pc = "done" /\ run[r].response = 200) =>
            LET totalDeadlines == Len(run[r].rows) IN
            /\ run[r].remindersSent + run[r].remindersSkipped <= totalDeadlines
            /\ (run[r].remindersSent + run[r].remindersSkipped = totalDeadlines)
                  <=> (PassedEvaluatorAndFailed(r) = {})
            /\ run[r].remindersSent =
                  Cardinality({k \in DOMAIN run[r].rows : emails[r][run[r].rows[k].id] = 1})

C27_Witness ==
    \E r \in Runs :
        /\ run[r].pc = "done"
        /\ run[r].response = 200
        /\ Len(run[r].rows) = 2
        /\ run[r].outcome[run[r].rows[1].id] = "update_failed"
        /\ run[r].outcome[run[r].rows[2].id] = "send_failed"
        /\ run[r].remindersSent = 1
        /\ run[r].remindersSkipped = 0

\* C28: no run sends an email for a deadline that is due on the day of its
\* evaluation or earlier: every row that passes the evaluator, and so every
\* row an email is sent for, has days-until-due at a reminder window and at
\* least 1 (its due date lies after the day of the evaluation), and every
\* row evaluated with days-until-due 0 or less is skipped without a profile
\* lookup, a send or an update.
C28_NoReminderOnOrAfterDueDay ==
    \A r \in Runs : \A k \in DOMAIN run[r].rows :
        LET row == run[r].rows[k] IN
        /\ (run[r].evalAt[row.id] # NULL /\ run[r].evalDays[row.id] <= 0)
              => /\ run[r].outcome[row.id] \in {"none", "skipped"}
                 /\ emails[r][row.id] = 0
                 /\ ~(run[r].pc \in {"profile", "send", "update"} /\ run[r].i = k)
        /\ emails[r][row.id] > 0
              => /\ run[r].evalDays[row.id] \in REMINDER_WINDOWS
                 /\ run[r].evalDays[row.id] >= 1
                 /\ row.due_date > run[r].evalAt[row.id] \div HoursPerDay

C28_Witness ==
    \E r \in Runs :
        /\ run[r].pc = "done"
        /\ Len(run[r].rows) = 2
        /\ run[r].evalDays[run[r].rows[1].id] = 0
        /\ run[r].rows[1].last_reminder_sent = NULL
        /\ run[r].outcome[run[r].rows[1].id] = "skipped"
        /\ run[r].evalDays[run[r].rows[2].id] = 1
        /\ emails[r][run[r].rows[2].id] = 1

\* C13: the days-until-due the dispatcher computes for a deadline is the
\* difference between the due date and the calendar date of the evaluation,
\* at every hour of the day (midnight, the cron hour, the last hour).
C13_DaysUntilIsCalendarDifference ==
    \A id \in DeadlineIds :
        run[CronRun].evalAt[id] # NULL =>
            run[CronRun].evalDays[id] =
                FetchedRow(CronRun, id).due_date - (run[CronRun].evalAt[id] \div HoursPerDay)

C13_Witness ==
    \E id \in DeadlineIds :
        /\ run[CronRun].evalAt[id] # NULL
        /\ run[CronRun].evalAt[id] % HoursPerDay = 23
        /\ run[CronRun].evalDays[id] = 3
        /\ FetchedRow(CronRun, id).due_date = today + 3

(***************************************************************************)
(* Claims about the billing webhook handler                                *)
(***************************************************************************)
RowsOfSubscription(sub) ==
    {row \in subscriptions : row.stripe_subscription_id = sub}

\* both deliveries carried the same checkout.session.completed event with a
\* user id, passed verification, fetched the subscription and were answered 200
ReplayedCheckout ==
    /\ \A q \in Requests :
        /\ request[q].pc = "done"
        /\ request[q].response = 200
        /\ request[q].retrieved
        /\ request[q].event.type = "checkout.session.completed"
        /\ request[q].event.user # NULL
    /\ \A q, o \in Requests : request[q].event = request[o].event

\* C4 (as claimed): after the same checkout.session.completed event has been
\* delivered twice, exactly one subscription row carries that provider
\* subscription id.
C4_ExactlyOneRowAfterReplay ==
    ReplayedCheckout =>
        \A q \in Requests :
            Cardinality(RowsOfSubscription(request[q].event.sub)) = 1

\* a delivery whose signature header is absent or whose signature does not
\* verify is answered with 400 at once and issues no database statement
RejectedWith400 ==
    \A q \in Requests :
        (request[q].pc # "new" /\ request[q].signature \in {"absent", "forged"}) =>
            /\ request[q].pc = "done"
            /\ request[q].response = 400
            /\ dbOps[q] = 0

\* the step that handles such a delivery leaves public.subscriptions and
\* public.profiles as they were
BadSignatureStepTouchesNothing ==
    \A q \in Requests :
        (request'[q] # request[q] /\ request'[q].signature \in {"absent", "forged"})
            => /\ subscriptions' = subscriptions
               /\ customers' = customers
               /\ dbOps' = dbOps

\* C5: the handler answers 400 to every request whose signature header is
\* absent or whose signature verification fails, and for such a request no
\* subscription or profile row is read or written.
C5_BadSignatureRejected ==
    []RejectedWith400 /\ [][BadSignatureStepTouchesNothing]_vars

C5_Witness ==
    \E q, o \in Requests :
        /\ request[q].pc = "done"
        /\ request[q].signature = "forged"
        /\ request[q].event.type = "customer.subscription.deleted"
        /\ request[q].response = 400
        /\ dbOps[q] = 0
        /\ request[o].pc = "done"
        /\ request[o].signature = "absent"
        /\ request[o].response = 400
        /\ \E row \in RowsOfSubscription(request[q].event.sub) : row.status = "active"

\* the step in which delivery q, holding a verified event of the given type,
\* is answered
Answers(q, type) ==
    /\ request[q].event.type = type
    /\ request[q].pc \in {"switch", "update"}
    /\ request'[q].pc = "done"

\* C14 (as claimed): the step that answers a checkout.session.completed
\* event with 200 leaves, for an event with a user id, a row of that user
\* with the event's subscription id, the tier PRICE_TO_TIER gives for its
\* price and status trialing if the subscription has a trial end and active
\* otherwise; for an event without a user id it leaves the table as it was.
C14_CheckoutWritesUserRow ==
    [][\A q \in Requests :
         (Answers(q, "checkout.session.completed") /\ request'[q].response = 200) =>
            LET e == request[q].event IN
            IF e.user = NULL
            THEN subscriptions' = subscriptions
            ELSE \E row \in subscriptions' :
                    /\ row.user_id = e.user
                    /\ row.stripe_subscription_id = e.sub
                    /\ row.plan_tier = PRICE_TO_TIER(e.price)
                    /\ row.status = IF e.trial_end # NULL THEN "trialing" ELSE "active"
      ]_vars

\* C15 (as claimed): the step that answers a customer.subscription.updated
\* event leaves every row with the event's subscription id with the price
\* and the tier resolved from it, the provider's status (trialing when the
\* status is active and trial_end lies in the future), and the event's period,
\* cancel_at_period_end and canceled_at; every other row is as it was.
C15_UpdatedWritesProviderState ==
    [][\A q \in Requests :
         Answers(q, "customer.subscription.updated") =>
            LET e == request[q].event IN
            subscriptions' =
               {IF row.stripe_subscription_id = e.sub
                THEN [row EXCEPT
                        !.stripe_price_id = e.price,
                        !.plan_tier = PRICE_TO_TIER(e.price),
                        !.status = IF e.status = "active" /\ e.trial_end # NULL
                                       /\ e.trial_end > now
                                   THEN "trialing" ELSE e.status,
                        !.current_period = e.period,
                        !.cancel_at_period_end = e.cancel_at_period_end,
                        !.canceled_at = e.canceled_at]
                ELSE row : row \in subscriptions}
      ]_vars

\* C16: the step that answers customer.subscription.deleted sets status
\* canceled and canceled_at to the current time; the one that answers
\* invoice.payment_failed for an invoice with a subscription sets past_due;
\* the one that answers invoice.payment_succeeded sets active when the invoice
\* has a subscription and billing_reason subscription_cycle, and changes no
\* row otherwise; each changes only these columns and only in the rows with
\* the event's subscription id.
C16_LifecycleTransitions ==
    [][\A q \in Requests :
         LET e == request[q].event
             OnlyStatus(st) ==
                 {IF row.stripe_subscription_id = e.sub
                  THEN [row EXCEPT !.status = st] ELSE row : row \in subscriptions}
         IN
         /\ Answers(q, "customer.subscription.deleted") =>
               /\ request'[q].response = 200
               /\ subscriptions' =
                    {IF row.stripe_subscription_id = e.sub
                     THEN [row EXCEPT !.status = "canceled", !.canceled_at = now]
                     ELSE row : row \in subscriptions}
         /\ Answers(q, "invoice.payment_failed") =>
               /\ request'[q].response = 200
               /\ subscriptions' =
                    IF e.sub # NULL THEN OnlyStatus("past_due") ELSE subscriptions
         /\ Answers(q, "invoice.payment_succeeded") =>
               /\ request'[q].response = 200
               /\ subscriptions' =
                    IF e.sub # NULL /\ e.billing_reason = "subscription_cycle"
                    THEN OnlyStatus("active") ELSE subscriptions
      ]_vars

C16_Witness ==
    \E q, o \in Requests :
        /\ request[q].pc = "done"
        /\ request[q].response = 200
        /\ request[q].event.type = "customer.subscription.deleted"
        /\ \E row \in RowsOfSubscription(request[q].event.sub) :
              row.status = "canceled" /\ row.canceled_at = now
        /\ request[o].pc = "done"
        /\ request[o].response = 200
        /\ request[o].event.type = "invoice.payment_succeeded"
        /\ request[o].event.billing_reason = "subscription_create"
        /\ request[o].event.sub # request[q].event.sub
        /\ \E row \in RowsOfSubscription(request[o].event.sub) :
              row.status = "trialing"

\* the status the handler's update statement carries for event e at clock
\* time: a constant for the deleted and invoice events, the provider's status
\* (trialing for an active subscription with a trial end ahead) for updated
StatusWritten(e, clock) ==
    CASE e.type = "customer.subscription.deleted" -> "canceled"
      [] e.type = "invoice.payment_failed" -> "past_due"
      [] e.type = "invoice.payment_succeeded" -> "active"
      [] e.type = "customer.subscription.updated" ->
            IF e.status = "active" /\ e.trial_end # NULL /\ e.trial_end > clock
            THEN "trialing" ELSE e.status
      [] OTHER -> ""

\* the step of delivery q issues its update statement and the database takes
\* it (the status fits the column's enum)
IssuesStatusUpdate(q) ==
    LET e == request[q].event IN
    /\ request'[q].pc = "done"
    /\ e.sub # NULL
    /\ StatusWritten(e, now) \in subscription_status
    /\ \/ request[q].pc = "switch" /\ e.type = "customer.subscription.deleted"
       \/ request[q].pc = "switch" /\ e.type = "invoice.payment_failed"
       \/ /\ request[q].pc = "switch" /\ e.type = "invoice.payment_succeeded"
          /\ e.billing_reason = "subscription_cycle"
       \/ request[q].pc = "update" /\ e.type = "customer.subscription.updated"

\* C29: the status a subscription-deleted, invoice-payment-failed,
\* invoice-payment-succeeded or subscription-updated delivery stores is a
\* function of the event alone: whatever status the row with the event's
\* subscription id had before the step, canceled included, it has the
\* event's status after it; so a canceled row goes back to active, past_due
\* or trialing when such an event arrives after the cancellation.
C29_StatusFromEventAlone ==
    [][\A q \in Requests : \A row \in subscriptions :
         (IssuesStatusUpdate(q) /\ row.stripe_subscription_id = request[q].event.sub)
            => \E after \in subscriptions' :
                  /\ after.id = row.id
                  /\ after.status = StatusWritten(request[q].event, now)
      ]_vars

\* the row canceled by a deleted delivery (canceled_at is that handler's
\* clock) is active again after a payment-succeeded delivery for it
C29_Witness ==
    \E q, o \in Requests :
        /\ request[o].pc = "done"
        /\ request[o].response = 200
        /\ request[o].event.type = "customer.subscription.deleted"
        /\ request[q].pc = "done"
        /\ request[q].response = 200
        /\ request[q].event.type = "invoice.payment_succeeded"
        /\ request[q].event.billing_reason = "subscription_cycle"
        /\ request[q].event.sub = request[o].event.sub
        /\ \E row \in RowsOfSubscription(request[q].event.sub) :
              row.status = "active" /\ row.canceled_at = now

\* C17: a delivery with a verified signature whose event type has no case in
\* the handler is answered with 200 without a database statement, and the
\* step that answers it leaves public.subscriptions and public.profiles as
\* they were.
C17_UnrecognizedAcknowledged ==
    /\ [](\A q \in Requests :
            (/\ request[q].pc = "done"
             /\ request[q].signature = "valid"
             /\ request[q].event.type \in {e.type : e \in OtherEvents})
            => request[q].response = 200 /\ dbOps[q] = 0)
    /\ [][\A q \in Requests :
            (/\ request[q].pc = "switch"
             /\ request[q].event.type \in {e.type : e \in OtherEvents}
             /\ request'[q] # request[q])
            => /\ request'[q].pc = "done"
               /\ subscriptions' = subscriptions
               /\ customers' = customers
               /\ dbOps' = dbOps
         ]_vars

C17_Witness ==
    \E q \in Requests :
        /\ request[q].pc = "done"
        /\ request[q].signature = "valid"
        /\ request[q].event.type = "customer.created"
        /\ request[q].response = 200
        /\ dbOps[q] = 0
        /\ subscriptions # {}

(***************************************************************************)
(* Claims about the recurrence scheduler and the auto-renewal              *)
(***************************************************************************)
MonthIndex(date) == date.year * 12 + date.month

\* date `later` is date `earlier` plus n calendar months: n months on, on the
\* same day of the month, or on the month's last day when it has no such day
IsMonthsLater(later, earlier, n) ==
    /\ MonthIndex(later) = MonthIndex(earlier) + n
    /\ later.month \in 1..12
    /\ \/ later.day = earlier.day /\ earlier.day <= DaysInMonth(later.year, later.month)
       \/ /\ later.day = DaysInMonth(later.year, later.month)
          /\ earlier.day > later.day

\* C18: every result of getNextDueDate is the current due date plus 1 calendar
\* month for monthly, 3 for quarterly, 6 for semi_annual, plus 1 calendar year
\* (same month, next year) for annual and 2 for biennial, and the current due
\* date itself for none.
C18_RecurrenceMapping ==
    \A call \in scheduled :
        LET from == call.currentDueDate
            to == call.result
        IN  /\ call.recurrence = "monthly" => IsMonthsLater(to, from, 1)
            /\ call.recurrence = "quarterly" => IsMonthsLater(to, from, 3)
            /\ call.recurrence = "semi_annual" => IsMonthsLater(to, from, 6)
            /\ call.recurrence = "annual" =>
                  /\ IsMonthsLater(to, from, 12)
                  /\ to.year = from.year + 1 /\ to.month = from.month
            /\ call.recurrence = "biennial" =>
                  /\ IsMonthsLater(to, from, 24)
                  /\ to.year = from.year + 2 /\ to.month = from.month
            /\ call.recurrence = "none" => to = from

C18_Witness ==
    \E call \in scheduled :
        /\ call.recurrence = "annual"
        /\ call.currentDueDate = [year |-> 2024, month |-> 2, day |-> 29]
        /\ call.result = [year |-> 2025, month |-> 2, day |-> 28]

\* C21 (as claimed): for the custom pattern every result of getNextDueDate
\* lies exactly customDays days after the current due date when an interval
\* is supplied (whatever its value), and 365 days after it when none is.
C21_CustomAddsInterval ==
    \A call \in scheduled :
        call.recurrence = "custom" =>
            DayNumber(call.result) - DayNumber(call.currentDueDate) =
                IF call.customDays = NULL THEN 365 ELSE call.customDays

\* C22: every result of getNextDueDate for a month- or year-based pattern is a
\* date of the calendar; when the target month has no day with the source's
\* day-of-month, the result is the last day of the target month (the target
\* month itself, not a day of the month after it), and otherwise it keeps
\* the day-of-month.
C22_MonthAdditionClamps ==
    \A call \in scheduled :
        LET from == call.currentDueDate
            to == call.result
            months == CASE call.recurrence = "monthly" -> 1
                        [] call.recurrence = "quarterly" -> 3
                        [] call.recurrence = "semi_annual" -> 6
                        [] call.recurrence = "annual" -> 12
                        [] call.recurrence = "biennial" -> 24
                        [] OTHER -> 0
            target == from.year * 12 + (from.month - 1) + months
            targetYear == target \div 12
            targetMonth == (target % 12) + 1
        IN  months > 0 =>
              /\ to.month \in 1..12
              /\ to.day \in 1..DaysInMonth(to.year, to.month)
              /\ to.year = targetYear /\ to.month = targetMonth
              /\ to.day = IF from.day > DaysInMonth(targetYear, targetMonth)
                          THEN DaysInMonth(targetYear, targetMonth)
                          ELSE from.day

C22_Witness ==
    \E call \in scheduled :
        /\ call.recurrence = "monthly"
        /\ call.currentDueDate = [year |-> 2024, month |-> 1, day |-> 31]
        /\ call.result = [year |-> 2024, month |-> 2, day |-> 29]

Successors(table, id) == {row \in table : row.parent_deadline_id = id}

\* C19 (as claimed): every successor row has the due date getNextDueDate
\* gives for its parent's due date, pattern and custom interval, carries the
\* parent's id and the parent's descriptive fields, and its parent is an
\* auto-renew deadline with a pattern other than none whose due date has
\* passed.
C19_SuccessorMatchesScheduler ==
    \A child \in recurring :
        child.parent_deadline_id # NULL =>
            \E parent \in recurring :
                /\ parent.id = child.parent_deadline_id
                /\ child.due_date = getNextDueDate(parent.due_date, parent.recurrence,
                                                   parent.recurrence_interval_days)
                /\ child.title = parent.title
                /\ child.recurrence = parent.recurrence
                /\ child.recurrence_interval_days = parent.recurrence_interval_days
                /\ child.auto_renew = parent.auto_renew
                /\ parent.auto_renew
                /\ parent.recurrence # "none"
                /\ DayNumber(parent.due_date) < today

\* the condition under which create_next_recurring_deadline inserts
Renewable(row) ==
    /\ row.auto_renew
    /\ row.recurrence # "none"
    /\ DayNumber(row.due_date) < today

\* C20: every run of create_next_recurring_deadline for an overdue auto-renew
\* recurring deadline adds one more successor row with that deadline's id as
\* parent_deadline_id, however many successors the deadline already has; a
\* run for any other deadline adds none.
C20_NoDuplicateGuard ==
    [][invoked'.n = invoked.n + 1 =>
         \E row \in recurring :
            /\ row.id = invoked'.id
            /\ Cardinality(Successors(recurring', row.id)) =
                  Cardinality(Successors(recurring, row.id))
                     + (IF Renewable(row) THEN 1 ELSE 0)
            /\ Cardinality(recurring') =
                  Cardinality(recurring) + (IF Renewable(row) THEN 1 ELSE 0)
      ]_vars

C20_Witness ==
    \E a, b \in recurring :
        /\ a # b
        /\ a.parent_deadline_id # NULL
        /\ a.parent_deadline_id = b.parent_deadline_id
        /\ invoked.n = 2

(***************************************************************************)
(* Claims about the deadline repository                                    *)
(***************************************************************************)
\* C6 (as claimed): a user whose plan has a deadline limit (free: 5) never
\* owns more deadlines than the limit.
C6_QuotaNeverExceeded ==
    LET deadline_limit == get_plan_limits(user_tier(RepoUser)).deadlines
    IN  deadline_limit # 0 - 1 => current_count <= deadline_limit

\* C7 (as claimed): no user has more than 100 deadlines whose created_at
\* lies within the last 24 hours.
C7_AtMostHundredPerDay ==
    RecentCount(now) <= 100

Acceptable(caller, token) ==
    {inv \in invitations :
        /\ inv.id = token
        /\ inv.status = "pending"
        /\ inv.expires_at > now
        /\ caller # NULL
        /\ inv.email = caller}

\* C30 (as claimed): a call of accept_invitation that finds a pending,
\* unexpired invitation addressed to the caller's email succeeds, sets the
\* caller's organization and role from the invitation and marks the
\* invitation accepted, whatever other invitations exist; any other call is
\* rejected and changes no profile and no invitation; and no two pending
\* invitations share organization and email.
C30_InvitationLifecycle ==
    [][/\ (teamCall' # teamCall /\ teamCall'.op = "accept") =>
            LET caller == teamCall'.caller
                taken == Acceptable(caller, teamCall'.token)
            IN  IF taken # {}
                THEN \E inv \in taken :
                        /\ teamCall'.ok
                        /\ teamProfiles' =
                              [teamProfiles EXCEPT
                                  ![caller] = [organization_id |-> inv.organization_id,
                                               role |-> inv.role]]
                        /\ invitations' =
                              (invitations \ {inv}) \cup {[inv EXCEPT !.status = "accepted"]}
                ELSE /\ ~teamCall'.ok
                     /\ teamProfiles' = teamProfiles
                     /\ invitations' = invitations
       /\ \A a, b \in invitations' :
            (/\ a.status = "pending" /\ b.status = "pending"
             /\ a.organization_id = b.organization_id
             /\ a.email = b.email) => a = b
      ]_vars

(***************************************************************************)
(* Claims about checkout-session creation                                  *)
(***************************************************************************)
CustomersOf(user) == {c \in stripeCustomers : c.supabase_user_id = user}

\* C26 (as claimed): the provider holds at most one customer record per user
\* id, and a request that reaches the session call uses the customer id
\* stored in its caller's profile; a request without Authorization header,
\* with an unknown caller or with a priceKey outside PRICE_IDS is answered
\* with 400 and has created no customer and written no profile.
C26_OneCustomerPerUser ==
    /\ \A user \in CheckoutUsers : Cardinality(CustomersOf(user)) <= 1
    /\ \A q \in CheckoutRequests :
          /\ (checkout[q].pc = "done" /\ checkout[q].response = 200)
                => checkout[q].customerId \in {c.id : c \in CustomersOf(checkout[q].user)}
          /\ (/\ checkout[q].pc # "new"
              /\ \/ checkout[q].authorization # "valid"
                 \/ checkout[q].priceKey \notin PRICE_IDS)
                => /\ checkout[q].pc = "done"
                   /\ checkout[q].response = 400
                   /\ checkout[q].created = 0
                   /\ checkout[q].saved = 0

====
